---- MODULE Spec2Model ----
(***************************************************************************)
(* Standup bot: the dispatcher of bot/slack_app.py (StandupBot) and the    *)
(* conversation graph of conversation/graph.py.                            *)
(*                                                                         *)
(* Every inbound socket request becomes one asyncio task                   *)
(* (sync_socket_handler -> loop.create_task).  A task runs without         *)
(* interruption up to its next suspension point; the suspension points are *)
(* the node executions inside `await conversation_graph.arun(...)` and     *)
(* `await client.chat_postMessage(...)`.  Conversation states are mutable  *)
(* objects: the node functions change the state they are given and return  *)
(* it, so states live in a heap and sessions and runs hold references.     *)
(*                                                                         *)
(* Library calls are taken by their evident meaning: arun executes the     *)
(* compiled graph from its entry point until no node is left to execute,   *)
(* and attribute access on a state reads the key of that name.             *)
(* analyze_draft is given two plain edges and a router over the same two   *)
(* targets; whether the compiled graph follows the router alone or the     *)
(* plain edges as well is not fixed by the source, and is a choice made    *)
(* once, when the graph is compiled (plain_edges).                         *)
(***************************************************************************)
EXTENDS Integers, Sequences, FiniteSets, TLC

(* ------------------------------ bounds -------------------------------- *)

\* inbound events (asyncio tasks) in one behaviour
NumTasks ==
  2

\* node executions the specification budgets for one run (spec 4.1); the
\* source sets no such number
StepBudget ==
  5

\* node executions of one run explored by the model
MaxSteps == StepBudget + 2

Tasks == 1..NumTasks

Users == {"U1", "U2"}

Channels == {"D1", "D2"}

\* event texts, as sequences of characters
TextStandup == <<"S", "t", "a", "n", "d", "u", "p">>

TextOk == <<" ", "o", "k">>

Texts == {TextStandup, TextOk}

(* ------------------------- text of an event --------------------------- *)

UpperCase == <<"S", "T", "A", "N", "D", "U", "P">>

LowerCase == <<"s", "t", "a", "n", "d", "u", "p">>

\* str.lower() of one character
LowerChar(c) ==
  IF \E i \in 1..Len(UpperCase) : UpperCase[i] = c
    THEN LowerCase[CHOOSE i \in 1..Len(UpperCase) : UpperCase[i] = c]
    ELSE c

\* text.lower()
Lower(x) == [i \in 1..Len(x) |-> LowerChar(x[i])]

RECURSIVE Strip(_)
\* text.strip()
Strip(x) ==
  IF x = <<>> THEN x
  ELSE IF Head(x) = " " THEN Strip(Tail(x))
  ELSE IF x[Len(x)] = " " THEN Strip(SubSeq(x, 1, Len(x) - 1))
  ELSE x

\* the start trigger
Trigger == <<"s", "t", "a", "n", "d", "u", "p">>

\* "standup" in text.lower()
ContainsTrigger(x) ==
  \E i \in 1..Len(x) :
    /\ i + Len(Trigger) - 1 <= Len(x)
    /\ SubSeq(Lower(x), i, i + Len(Trigger) - 1) = Trigger

(* ------------------------ conversation state -------------------------- *)

Nodes ==
  {"initialize", "fetch_activities", "generate_draft", "analyze_draft",
   "ask_followup", "finalize"}

\* the nodes that call the generation resource (get_llm, chain.invoke)
LLMNodes == {"generate_draft", "analyze_draft", "ask_followup", "finalize"}

EntryPoint == "initialize"

DraftKeys == {"accomplishments", "plans", "blockers"}

\* {}
EmptyDict == [k \in {} |-> <<>>]

\* d.get(k, [])
Get(d, k) == IF k \in DOMAIN d THEN d[k] ELSE <<>>

\* the dict built from activities in fetch_activities and in the fallback
\* of generate_draft
Skeleton(activities) == [k \in DraftKeys |-> Get(activities, k)]

HumanMessage(content) == [role |-> "human", content |-> content]

AIMessage(content) == [role |-> "ai", content |-> content]

\* message texts are sequences, as the event texts are
SeedText == <<"Let's start my standup update.">>

Apology == <<"Sorry, I encountered an error. Please try again.">>

\* StandupState(...) of _initiate_standup
InitialState(u) ==
  [messages |-> <<HumanMessage(SeedText)>>,
   user_info |-> [id |-> u],
   current_draft |-> EmptyDict,
   activities |-> EmptyDict,
   next_step |-> "initialize"]

\* a heap cell that holds no state
NoState ==
  [messages |-> <<>>,
   user_info |-> [id |-> "none"],
   current_draft |-> EmptyDict,
   activities |-> EmptyDict,
   next_step |-> "none"]

\* no entry in active_conversations
NoSession == [state |-> 0, channel |-> "none"]

(* ------------------- responses of the generation call ----------------- *)

\* response.content as returned by chain.invoke; json is what json.loads
\* makes of it, and parsable is FALSE when json.loads raises
RespDraft ==
  [content |-> <<"draft-json">>, parsable |-> TRUE,
   json |-> [k \in DraftKeys |-> <<"item">>]]

RespClarify ==
  [content |-> <<"clarify-json">>, parsable |-> TRUE,
   json |-> [needs_clarification |-> TRUE, questions |-> <<"q1", "q2">>]]

RespComplete ==
  [content |-> <<"complete-json">>, parsable |-> TRUE,
   json |-> [needs_clarification |-> FALSE, questions |-> <<>>]]

RespText ==
  [content |-> <<"final text">>, parsable |-> FALSE, json |-> EmptyDict]

\* what the generation resource may answer to each node
Responses(n) ==
  CASE n = "generate_draft" -> {RespDraft, RespText}
    [] n = "analyze_draft" -> {RespClarify, RespComplete, RespText}
    [] n = "ask_followup" -> {RespDraft, RespText}
    [] n = "finalize" -> {RespText}

Transient == {"Throttled", "Timeout"}

Permanent == {"AuthInvalid", "Malformed"}

\* the failures the generation call is made to end with here: the transient
\* and the permanent one of the specification's scenarios 4 and 5
FailKinds == {"Throttled", "AuthInvalid"}

Parsable(resp) == resp.parsable

\* "\n".join(questions)
RECURSIVE JoinLines(_)
JoinLines(qs) ==
  IF qs = <<>> THEN <<>>
  ELSE IF Len(qs) = 1 THEN <<qs[1]>>
  ELSE <<qs[1], "\n">> \o JoinLines(Tail(qs))

(* ----------------------------- the nodes ------------------------------ *)

initialize_state(s) == [s EXCEPT !.next_step = "fetch_activities"]

fetch_activities(s) ==
  [s EXCEPT !.activities = Skeleton(s.activities),
            !.next_step = "generate_draft"]

\* generate_draft with no except block around json.loads: nothing to fall
\* back on, the draft is what was parsed
generate_draft_NoFallback(s, resp) ==
  [s EXCEPT !.current_draft = resp.json,
            !.next_step = "analyze_draft"]

generate_draft(s, resp) ==
  [s EXCEPT !.current_draft =
              IF Parsable(resp) THEN resp.json ELSE Skeleton(s.activities),
            !.next_step = "analyze_draft"]

analyze_draft(s, resp) ==
  IF Parsable(resp) /\ "needs_clarification" \in DOMAIN resp.json
    THEN IF resp.json.needs_clarification
           THEN [s EXCEPT !.next_step = "ask_followup",
                          !.messages =
                            Append(@, AIMessage(JoinLines(resp.json.questions)))]
           ELSE [s EXCEPT !.next_step = "finalize"]
    ELSE [s EXCEPT !.next_step = "finalize"]

ask_followup(s, resp) ==
  [s EXCEPT !.current_draft = IF Parsable(resp) THEN resp.json ELSE @,
            !.next_step = "analyze_draft"]

\* the terminal sentinel
END == "end"

\* finalize signalling the end with a name the dispatcher does not know
finalize_Done(s, resp) ==
  [s EXCEPT !.messages = Append(@, AIMessage(resp.content)),
            !.next_step = "done"]

finalize(s, resp) ==
  [s EXCEPT !.messages = Append(@, AIMessage(resp.content)),
            !.next_step = "end"]

\* the node function registered under name n (add_node)
RunNodeFn(n, s, resp) ==
  CASE n = "initialize" -> initialize_state(s)
    [] n = "fetch_activities" -> fetch_activities(s)
    [] n = "generate_draft" -> generate_draft(s, resp)
    [] n = "analyze_draft" -> analyze_draft(s, resp)
    [] n = "ask_followup" -> ask_followup(s, resp)
    [] n = "finalize" -> finalize(s, resp)

(* ----------------------------- the graph ------------------------------ *)

\* add_edge
Edges ==
  {<<"initialize", "fetch_activities">>,
   <<"fetch_activities", "generate_draft">>,
   <<"generate_draft", "analyze_draft">>,
   <<"analyze_draft", "ask_followup">>,
   <<"analyze_draft", "finalize">>,
   <<"ask_followup", "analyze_draft">>}

\* add_conditional_edges: the nodes that have a router
Routed == {"analyze_draft"}

\* lambda x: x["next_step"]
Router(s) == s.next_step

\* the mapping of the conditional edges
RouteMap == [k \in {"ask_followup", "finalize"} |-> k]

(* ------------------------------ state --------------------------------- *)

VARIABLES
  api_key,    \* whether OPENAI_API_KEY is set in the environment
  plain_edges, \* whether the compiled graph follows the plain edges of a
              \* node that has a router as well (create_standup_graph)
  active,     \* self.active_conversations: user -> [state, channel]
  heap,       \* the StandupState objects, by the task that created them
  pc,         \* where each task (inbound event) is
  ev,         \* the inbound event of each task
  ref,        \* conv_data["state"]: the state object a task's run works on
  chan,       \* channel_id of _run_graph
  front,      \* the nodes a task's run has still to execute
  calling,    \* the node whose generation call a task has outstanding
  attempts,   \* chain.invoke calls made for the outstanding generation call
  genResult,  \* what the last generation call of a task ended with
  steps,      \* node executions of a task's run
  outbox      \* chat_postMessage calls made on behalf of each task

vars ==
  <<api_key, plain_edges, active, heap, pc, ev, ref, chan, front, calling, attempts,
    genResult, steps, outbox>>

NoEvent == [user |-> "none", channel |-> "none", text |-> <<>>, bot |-> FALSE]

Init ==
  /\ api_key \in BOOLEAN
  /\ plain_edges \in BOOLEAN
  /\ active = [u \in Users |-> NoSession]
  /\ heap = [o \in Tasks |-> NoState]
  /\ pc = [t \in Tasks |-> "new"]
  /\ ev = [t \in Tasks |-> NoEvent]
  /\ ref = [t \in Tasks |-> 0]
  /\ chan = [t \in Tasks |-> "none"]
  /\ front = [t \in Tasks |-> {}]
  /\ calling = [t \in Tasks |-> "none"]
  /\ attempts = [t \in Tasks |-> 0]
  /\ genResult = [t \in Tasks |-> "none"]
  /\ steps = [t \in Tasks |-> 0]
  /\ outbox = [t \in Tasks |-> <<>>]

\* the targets of the plain edges of node n
PlainTargets(n) == {e[2] : e \in {d \in Edges : d[1] = n}}

\* the nodes to execute after node n returned state s: a node with a
\* router goes where the router sends it, and along its plain edges too if
\* the compiled graph follows them; the others follow their edge, and a
\* node without outgoing edge (finalize) ends the run
Successors(n, s) ==
  IF n \in Routed
    THEN {RouteMap[Router(s)]} \cup (IF plain_edges THEN PlainTargets(n) ELSE {})
    ELSE PlainTargets(n)

\* user_id in self.active_conversations
HasSession(u) == active[u] # NoSession

\* messages[-1]
Last(ms) == ms[Len(ms)]

\* chat_postMessage(channel=c, text=x) on behalf of task t
Post(t, c, x) ==
  outbox' = [outbox EXCEPT ![t] = Append(@, [channel |-> c, text |-> x])]

\* the handler of task t is over, in position p: its locals are gone
Finish(t, p) ==
  /\ pc' = [pc EXCEPT ![t] = p]
  /\ ref' = [ref EXCEPT ![t] = 0]
  /\ chan' = [chan EXCEPT ![t] = "none"]
  /\ front' = [front EXCEPT ![t] = {}]
  /\ calling' = [calling EXCEPT ![t] = "none"]
  /\ steps' = [steps EXCEPT ![t] = 0]

\* the heap after a step that leaves the state objects as h: an object
\* that neither a session nor a run refers to any more is freed
Heap(h) ==
  heap' = [o \in Tasks |->
             IF \/ \E u \in Users : active'[u].state = o
                \/ \E t \in Tasks : ref'[t] = o
               THEN h[o] ELSE NoState]

\* Fail with a handler that drops every conversation
Fail_DropsAll(t, c) ==
  /\ Post(t, c, Apology)
  /\ Finish(t, "failed")
  /\ active' = [u \in Users |-> NoSession]
  /\ Heap(heap)

\* the except blocks of _initiate_standup, _continue_conversation and
\* _run_graph: _send_error_message(c) and nothing else
Fail(t, c) ==
  /\ Post(t, c, Apology)
  /\ Finish(t, "failed")
  /\ UNCHANGED active
  /\ Heap(heap)

\* the start of _run_graph for task t: the run takes the session's state
\* object o and channel c, and arun starts at the entry point
StartRun(t, o, c) ==
  /\ ref' = [ref EXCEPT ![t] = o]
  /\ chan' = [chan EXCEPT ![t] = c]
  /\ front' = [front EXCEPT ![t] = {EntryPoint}]
  /\ pc' = [pc EXCEPT ![t] = "graph"]

\* sync_socket_handler starts the tasks in the order the events arrive
NextToArrive(t) ==
  /\ pc[t] = "new"
  /\ \A s \in Tasks : s < t => pc[s] # "new"

\* the inbound event of task t
Event(t, u, c, x, b) ==
  ev' = [ev EXCEPT ![t] = [user |-> u, channel |-> c, text |-> x, bot |-> b]]

(* ----------------------- the inbound event handler -------------------- *)

\* ArriveBot without the test for bot_id: the event is handled as a message
ArriveBot_Handled(t, u, c, x) ==
  /\ NextToArrive(t)
  /\ ContainsTrigger(Strip(x))
  /\ Event(t, u, c, x, TRUE)
  /\ active' = [active EXCEPT ![u] = [state |-> t, channel |-> c]]
  /\ StartRun(t, t, c)
  /\ Heap([heap EXCEPT ![t] = InitialState(u)])
  /\ UNCHANGED <<api_key, plain_edges, calling, attempts, genResult, steps,
                 outbox>>

\* handle_socket_request: an event that carries a bot_id is not handled
ArriveBot(t, u, c, x) ==
  /\ NextToArrive(t)
  /\ Event(t, u, c, x, TRUE)
  /\ pc' = [pc EXCEPT ![t] = "ignored"]
  /\ UNCHANGED <<api_key, plain_edges, active, heap, ref, chan, front, calling, attempts,
                 genResult, steps, outbox>>

\* ArriveIgnored without the test for an active conversation: the lookup
\* in _continue_conversation raises and the apology is sent
ArriveIgnored_Apology(t, u, c, x) ==
  /\ NextToArrive(t)
  /\ ~ContainsTrigger(Strip(x))
  /\ ~HasSession(u)
  /\ Event(t, u, c, x, FALSE)
  /\ Fail(t, c)
  /\ UNCHANGED <<api_key, plain_edges, attempts, genResult>>

\* _handle_message: neither the trigger nor a user with a conversation
ArriveIgnored(t, u, c, x) ==
  /\ NextToArrive(t)
  /\ ~ContainsTrigger(Strip(x))
  /\ ~HasSession(u)
  /\ Event(t, u, c, x, FALSE)
  /\ pc' = [pc EXCEPT ![t] = "ignored"]
  /\ UNCHANGED <<api_key, plain_edges, active, heap, ref, chan, front, calling, attempts,
                 genResult, steps, outbox>>

\* _handle_message -> _initiate_standup, users_info answers: the new state
\* is stored under the user id, whatever was stored there, and the graph
\* is started on it
ArriveStart(t, u, c, x) ==
  /\ NextToArrive(t)
  /\ ContainsTrigger(Strip(x))
  /\ Event(t, u, c, x, FALSE)
  /\ active' = [active EXCEPT ![u] = [state |-> t, channel |-> c]]
  /\ StartRun(t, t, c)
  /\ Heap([heap EXCEPT ![t] = InitialState(u)])
  /\ UNCHANGED <<api_key, plain_edges, calling, attempts, genResult, steps, outbox>>

\* ArriveLookupFail with the conversation stored before users_info is
\* called
ArriveLookupFail_StoredFirst(t, u, c, x) ==
  /\ NextToArrive(t)
  /\ ContainsTrigger(Strip(x))
  /\ Event(t, u, c, x, FALSE)
  /\ Post(t, c, Apology)
  /\ Finish(t, "failed")
  /\ active' = [active EXCEPT ![u] = [state |-> t, channel |-> c]]
  /\ Heap([heap EXCEPT ![t] = InitialState(u)])
  /\ UNCHANGED <<api_key, plain_edges, attempts, genResult>>

\* _handle_message -> _initiate_standup, users_info raises
ArriveLookupFail(t, u, c, x) ==
  /\ NextToArrive(t)
  /\ ContainsTrigger(Strip(x))
  /\ Event(t, u, c, x, FALSE)
  /\ Fail(t, c)
  /\ UNCHANGED <<api_key, plain_edges, attempts, genResult>>

\* _handle_message -> _continue_conversation: the text is appended to the
\* messages of the user's state object and the graph is started on it
ArriveContinue(t, u, c, x) ==
  /\ NextToArrive(t)
  /\ ~ContainsTrigger(Strip(x))
  /\ HasSession(u)
  /\ Event(t, u, c, x, FALSE)
  /\ StartRun(t, active[u].state, active[u].channel)
  /\ heap' = [heap EXCEPT ![active[u].state].messages =
                            Append(@, HumanMessage(Strip(x)))]
  /\ UNCHANGED <<api_key, plain_edges, active, calling, attempts, genResult, steps, outbox>>

(* --------------------------- the graph run ---------------------------- *)

\* the run of task t has executed node n of its frontier, which left the
\* state object as s; the nodes of a frontier execute one at a time
Advance(t, n, s) ==
  /\ heap' = [heap EXCEPT ![ref[t]] = s]
  /\ front' = [front EXCEPT ![t] = (@ \ {n}) \cup Successors(n, s)]
  /\ steps' = [steps EXCEPT ![t] = @ + 1]

\* a node that makes no generation call executes
ExecNode(t) ==
  /\ pc[t] = "graph"
  /\ steps[t] < MaxSteps
  /\ \E n \in front[t] \ LLMNodes :
       Advance(t, n, RunNodeFn(n, heap[ref[t]], RespText))
  /\ UNCHANGED <<api_key, plain_edges, active, pc, ev, ref, chan, calling, attempts,
                 genResult, outbox>>

\* get_llm() of a node: the generation client is built from OPENAI_API_KEY
get_llm == api_key

\* a node of the frontier builds its client and invokes its chain
CallLLM(t) ==
  /\ pc[t] = "graph"
  /\ steps[t] < MaxSteps
  /\ calling[t] = "none"
  /\ get_llm
  /\ \E n \in front[t] \cap LLMNodes :
       calling' = [calling EXCEPT ![t] = n]
  /\ attempts' = [attempts EXCEPT ![t] = 1]
  /\ UNCHANGED <<api_key, plain_edges, active, heap, pc, ev, ref, chan, front, genResult,
                 steps, outbox>>

\* get_llm raises ValueError: the node raises out of arun into the except
\* block of _run_graph
CallLLMNoKey(t) ==
  /\ pc[t] = "graph"
  /\ steps[t] < MaxSteps
  /\ calling[t] = "none"
  /\ ~get_llm
  /\ front[t] \cap LLMNodes # {}
  /\ Fail(t, chan[t])
  /\ UNCHANGED <<api_key, plain_edges, ev, attempts, genResult>>

\* chain.invoke returns a response and the node finishes
ReturnLLM(t) ==
  /\ pc[t] = "graph"
  /\ calling[t] # "none"
  /\ \E resp \in Responses(calling[t]) :
       /\ Advance(t, calling[t], RunNodeFn(calling[t], heap[ref[t]], resp))
       /\ genResult' = [genResult EXCEPT ![t] =
                          IF Parsable(resp) THEN "ok" ELSE "text"]
  /\ calling' = [calling EXCEPT ![t] = "none"]
  /\ UNCHANGED <<api_key, plain_edges, active, pc, ev, ref, chan, attempts, outbox>>

\* chain.invoke raises: the exception leaves the node and arun and reaches
\* the except block of _run_graph
FailLLM(t) ==
  /\ pc[t] = "graph"
  /\ calling[t] # "none"
  /\ \E k \in FailKinds : genResult' = [genResult EXCEPT ![t] = k]
  /\ Fail(t, chan[t])
  /\ UNCHANGED <<api_key, plain_edges, ev, attempts>>

(* ------------------------ after the graph run ------------------------- *)

\* _finalize_conversation(u) on behalf of task t, the sessions being act
FinalizeConversation(t, u, act) ==
  IF act[u] # NoSession
    THEN /\ Post(t, act[u].channel, Last(heap[act[u].state].messages).content)
         /\ active' = [act EXCEPT ![u] = NoSession]
    ELSE /\ active' = act
         /\ UNCHANGED outbox

\* _run_graph from `if result.next_step == "end"` on, the sessions being act
EndCheck(t, act) ==
  /\ IF heap[ref[t]].next_step = "end"
       THEN /\ FinalizeConversation(t, ev[t].user, act)
            /\ Finish(t, "ended")
       ELSE /\ active' = act
            /\ Finish(t, "returned")
            /\ UNCHANGED outbox
  /\ Heap(heap)

\* self.active_conversations[user_id]["state"] = result
StoreResult(t) == [active EXCEPT ![ev[t].user].state = ref[t]]

\* arun returns, but the user has no entry in active_conversations any
\* more: the store of the result raises KeyError
ReturnNoSession(t) ==
  /\ pc[t] = "graph"
  /\ front[t] = {}
  /\ ~HasSession(ev[t].user)
  /\ Fail(t, chan[t])
  /\ UNCHANGED <<api_key, plain_edges, ev, attempts, genResult>>

\* arun returns and the result is stored; its last message is of the
\* assistant and chat_postMessage is awaited
ReturnPost(t) ==
  /\ pc[t] = "graph"
  /\ front[t] = {}
  /\ HasSession(ev[t].user)
  /\ Last(heap[ref[t]].messages).role = "ai"
  /\ active' = StoreResult(t)
  /\ Post(t, chan[t], Last(heap[ref[t]].messages).content)
  /\ pc' = [pc EXCEPT ![t] = "post"]
  /\ UNCHANGED <<ref, chan, front, calling, steps>>
  /\ Heap(heap)
  /\ UNCHANGED <<api_key, plain_edges, ev, attempts, genResult>>

\* as ReturnPost, but chat_postMessage raises
ReturnPostFail(t) ==
  /\ pc[t] = "graph"
  /\ front[t] = {}
  /\ HasSession(ev[t].user)
  /\ Last(heap[ref[t]].messages).role = "ai"
  /\ active' = StoreResult(t)
  /\ Post(t, chan[t], Apology)
  /\ Finish(t, "failed")
  /\ Heap(heap)
  /\ UNCHANGED <<api_key, plain_edges, ev, attempts, genResult>>

\* arun returns and the result is stored; its last message is not of the
\* assistant, so nothing is awaited before the check for the end
ReturnSilent(t) ==
  /\ pc[t] = "graph"
  /\ front[t] = {}
  /\ HasSession(ev[t].user)
  /\ Last(heap[ref[t]].messages).role # "ai"
  /\ EndCheck(t, StoreResult(t))
  /\ UNCHANGED <<api_key, plain_edges, ev, attempts, genResult>>

\* chat_postMessage has returned
PostReturn(t) ==
  /\ pc[t] = "post"
  /\ EndCheck(t, active)
  /\ UNCHANGED <<api_key, plain_edges, ev, attempts, genResult>>

(* -------------------------- specification ----------------------------- *)

Arrive(t) ==
  \E u \in Users, c \in Channels, x \in Texts :
    \/ ArriveBot(t, u, c, x)
    \/ ArriveIgnored(t, u, c, x)
    \/ ArriveStart(t, u, c, x)
    \/ ArriveLookupFail(t, u, c, x)
    \/ ArriveContinue(t, u, c, x)

Next ==
  \E t \in Tasks :
    \/ Arrive(t)
    \/ ExecNode(t)
    \/ CallLLM(t)
    \/ CallLLMNoKey(t)
    \/ ReturnLLM(t)
    \/ FailLLM(t)
    \/ ReturnNoSession(t)
    \/ ReturnPost(t)
    \/ ReturnPostFail(t)
    \/ ReturnSilent(t)
    \/ PostReturn(t)

Spec == Init /\ [][Next]_vars

(* ------------------------------ claims -------------------------------- *)

\* attempts the specification allows one generation call (spec 4.3,
\* scenario 4: the third attempt is within the bound)
RetryBound ==
  3

\* the tasks whose graph run is in flight
Running == {t \in Tasks : pc[t] = "graph"}

\* C1: events of one user are processed one at a time: no two graph runs
\* of the same user are in flight at once.
C1_OneRunPerUser ==
  \A t1 \in Running, t2 \in Running :
    t1 # t2 => ev[t1].user # ev[t2].user

\* every Human message of ms is a message of ns
KeepsHuman(ms, ns) ==
  \A i \in 1..Len(ms) :
    ms[i].role = "human" => \E j \in 1..Len(ns) : ns[j] = ms[i]

\* C2: no lost update: no step drops a Human message from the messages of
\* a user's session, and a run that returns stores its result only over the
\* state object it started from.
C2_NoLostUpdate ==
  [][/\ \A u \in Users :
          (HasSession(u) /\ HasSession(u)') =>
            KeepsHuman(heap[active[u].state].messages,
                       heap'[active'[u].state].messages)
     /\ \A t \in Tasks :
          (pc[t] = "graph" /\ pc'[t] \in {"post", "ended", "returned"}) =>
            active[ev[t].user].state = ref[t]]_vars

\* C3: at most one call to the generation resource is outstanding.
C3_OneCallOutstanding ==
  Cardinality({t \in Tasks : calling[t] # "none"}) <= 1

\* C4: a task seeds a session for a user only if its text contains the
\* trigger and the user had no session; so no inbound text replaces an
\* existing session's state.
C4_StartOnlyWithoutSession ==
  [][\A t \in Tasks, u \in Users :
       (pc[t] = "new" /\ active'[u].state = t) =>
         (ContainsTrigger(Strip(ev'[t].text)) /\ ~HasSession(u))]_vars

\* C5: a run executes no more nodes than the step budget.
C5_WithinStepBudget ==
  \A t \in Tasks : steps[t] <= StepBudget

\* C6: ask_followup is up for execution only once a Human message has been
\* appended after the follow-up question: the run pauses after
\* analyze_draft asks.
C6_PauseBeforeFollowup ==
  \A t \in Running :
    "ask_followup" \in front[t] => Last(heap[ref[t]].messages).role = "human"

\* C7: when a graph run fails, the user is sent exactly one apology and the
\* user's session is gone.
C7_FailureClearsSession ==
  [][\A t \in Tasks :
       (pc[t] = "graph" /\ pc'[t] = "failed") =>
         /\ outbox'[t] = Append(outbox[t], [channel |-> chan[t], text |-> Apology])
         /\ ~HasSession(ev[t].user)']_vars

\* C8: a run that reached END has posted exactly one message and its
\* user's session is deleted; a run that returned before END leaves the
\* session in place.
C8_OneFinalMessage ==
  [][\A t \in Tasks :
       /\ (pc[t] # "ended" /\ pc'[t] = "ended") =>
            (Len(outbox'[t]) = 1 /\ ~HasSession(ev[t].user)')
       /\ (pc[t] # "returned" /\ pc'[t] = "returned") =>
            HasSession(ev[t].user)']_vars

\* C9: a run fails on a generation failure only if the failure is permanent
\* and was attempted once, or is transient and the attempts are used up.
C9_RetryPolicy ==
  \A t \in Tasks :
    (pc[t] = "failed" /\ genResult[t] \in FailKinds) =>
      \/ genResult[t] \in Permanent /\ attempts[t] = 1
      \/ genResult[t] \in Transient /\ attempts[t] = RetryBound

\* C10: a step in which the handling of a user's event fails leaves every
\* other user's session, its state and its reply destination as they were,
\* and the tasks of the other users where they were.
C10_FailureIsolation ==
  [][\A t \in Tasks :
       (pc[t] # "failed" /\ pc'[t] = "failed") =>
         \A u \in Users \ {ev'[t].user} :
           /\ active'[u] = active[u]
           /\ HasSession(u) =>
                heap'[active[u].state] = heap[active[u].state]
           /\ \A s \in Tasks :
                ev[s].user = u =>
                  /\ pc'[s] = pc[s]
                  /\ ref'[s] = ref[s]
                  /\ front'[s] = front[s]
                  /\ calling'[s] = calling[s]
                  /\ (ref[s] # 0 => heap'[ref[s]] = heap[ref[s]])]_vars

\* C10: a user's event has failed on a generation failure while the run of
\* another user, started before it, is still going on its session
C10_Witness ==
  \E ta \in Tasks, tb \in Tasks :
    /\ tb < ta
    /\ ev[ta].user # ev[tb].user
    /\ pc[ta] = "failed"
    /\ genResult[ta] \in FailKinds
    /\ pc[tb] = "graph"
    /\ steps[tb] >= 1
    /\ active[ev[tb].user].state = ref[tb]

\* C11: the next_step of every state object, after any node execution and
\* in every stored session, is a registered node name or END.
C11_NextStepRegistered ==
  \A o \in Tasks :
    heap[o] # NoState => heap[o].next_step \in Nodes \cup {END}

\* C11: finalize has executed on the state of a stored session
C11_Witness ==
  \E u \in Users, t \in Tasks :
    /\ HasSession(u)
    /\ pc[t] = "graph"
    /\ ref[t] = active[u].state
    /\ steps[t] >= 5
    /\ heap[ref[t]].next_step = END

\* C12: the step that takes up an event of bot origin creates and changes
\* no session and no state, starts no run and posts nothing.
C12_BotEventIgnored ==
  [][\A t \in Tasks :
       (pc[t] = "new" /\ pc'[t] # "new" /\ ev'[t].bot) =>
         /\ pc'[t] = "ignored"
         /\ UNCHANGED <<active, heap, ref, front, calling, steps, outbox>>]_vars

\* C12: an event of bot origin whose text holds the trigger was ignored
\* while its user has a session
C12_Witness ==
  \E t \in Tasks :
    /\ pc[t] = "ignored"
    /\ ev[t].bot
    /\ ContainsTrigger(Strip(ev[t].text))
    /\ HasSession(ev[t].user)

\* C13: the step that takes up a text without the trigger, of a user who
\* has no session, changes no session and no state, starts no run and
\* posts nothing.
C13_NonTriggerIgnored ==
  [][\A t \in Tasks :
       (/\ pc[t] = "new" /\ pc'[t] # "new"
        /\ ~ev'[t].bot
        /\ ~ContainsTrigger(Strip(ev'[t].text))
        /\ ~HasSession(ev'[t].user)) =>
         /\ pc'[t] = "ignored"
         /\ UNCHANGED <<active, heap, ref, front, calling, steps, outbox>>]_vars

\* C13: a text without the trigger, of a user without session, was ignored
\* while another user has a session
C13_Witness ==
  \E t \in Tasks, u \in Users :
    /\ pc[t] = "ignored"
    /\ ~ev[t].bot
    /\ ~ContainsTrigger(Strip(ev[t].text))
    /\ ~HasSession(ev[t].user)
    /\ HasSession(u)

\* C14: no step of a run is the failure to build the generation client: a
\* run with nodes still to execute and no generation call outstanding does
\* not fail.
C14_NoClientFailureInRun ==
  [][\A t \in Tasks :
       ~(/\ pc[t] = "graph"
         /\ front[t] # {}
         /\ calling[t] = "none"
         /\ pc'[t] = "failed")]_vars

\* C15: when analyze_draft returns, exactly one node is added to what the
\* run has still to execute: ask_followup if the analysis appended its
\* questions (draft incomplete), finalize otherwise.
C15_OneSuccessor ==
  [][\A t \in Tasks :
       (/\ pc[t] = "graph" /\ pc'[t] = "graph"
        /\ calling[t] = "analyze_draft" /\ calling'[t] = "none") =>
         front'[t] =
           (front[t] \ {"analyze_draft"}) \cup
             {IF Len(heap'[ref[t]].messages) > Len(heap[ref[t]].messages)
                THEN "ask_followup" ELSE "finalize"}]_vars

\* C16: finalize is followed by END with no further node executing: once
\* the state object of a run has next_step = END, the run executes no node.
C16_NothingAfterFinalize ==
  [][\A t \in Tasks :
       (/\ pc[t] = "graph"
        /\ heap[ref[t]].next_step = END) =>
         steps'[t] # steps[t] + 1]_vars

\* C17: a generation call that returns content that is no JSON does not
\* fail the run, and the node sets next_step: generate_draft leaves the
\* skeleton of the activities as current_draft, ask_followup leaves
\* current_draft as it was, analyze_draft sets next_step to finalize.
C17_UnparsableFallback ==
  [][\A t \in Tasks :
       (/\ pc[t] = "graph"
        /\ calling[t] \in {"generate_draft", "ask_followup", "analyze_draft"}
        /\ calling'[t] = "none"
        /\ genResult'[t] = "text") =>
         /\ pc'[t] = "graph"
         /\ steps'[t] = steps[t] + 1
         /\ LET n == calling[t]
                s == heap[ref[t]]
                r == heap'[ref[t]]
            IN  /\ n = "generate_draft" =>
                     /\ r.current_draft = Skeleton(s.activities)
                     /\ r.next_step = "analyze_draft"
                /\ n = "ask_followup" =>
                     /\ r.current_draft = s.current_draft
                     /\ r.next_step = "analyze_draft"
                /\ n = "analyze_draft" =>
                     /\ r.next_step = "finalize"
                     /\ r.messages = s.messages]_vars

\* C17: a run went on to the end after generate_draft got content that is
\* no JSON: the draft of its state is the skeleton of the activities
C17_Witness ==
  \E t \in Tasks :
    /\ pc[t] = "graph"
    /\ heap[ref[t]].next_step = END
    /\ heap[ref[t]].current_draft = Skeleton(heap[ref[t]].activities)
    /\ heap[ref[t]].current_draft # RespDraft.json

\* a is a prefix of b
IsPrefix(a, b) == Len(a) <= Len(b) /\ \A i \in 1..Len(a) : b[i] = a[i]

\* C18: over every step that leaves a user's session in place (a step that
\* stores a newly created state counts as the creation of a session), the
\* messages the session had are a prefix of the messages it has.
C18_MessagesAppendOnly ==
  [][\A u \in Users :
       (/\ HasSession(u)
        /\ active'[u] # NoSession
        /\ heap[active'[u].state] # NoState) =>
         IsPrefix(heap[active[u].state].messages,
                  heap'[active'[u].state].messages)]_vars

\* C19: the last message of every state whose next_step is END is a
\* message of the assistant.
C19_EndHasAssistantLast ==
  \A o \in Tasks :
    (heap[o] # NoState /\ heap[o].next_step = END) =>
      Last(heap[o].messages).role = "ai"

\* C20: the step in which the start of a standup fails (users_info raises)
\* for a user without session stores no session and no state, starts no
\* run, and posts one message, the apology, to the channel of the event.
C20_LookupFailure ==
  [][\A t \in Tasks :
       (/\ pc[t] = "new" /\ pc'[t] = "failed"
        /\ ContainsTrigger(Strip(ev'[t].text))
        /\ ~HasSession(ev'[t].user)) =>
         /\ active'[ev'[t].user] = NoSession
         /\ UNCHANGED <<active, heap>>
         /\ ref'[t] = 0 /\ front'[t] = {} /\ calling'[t] = "none"
         /\ outbox' = [outbox EXCEPT ![t] =
                         <<[channel |-> ev'[t].channel, text |-> Apology]>>]]_vars

\* C20: the start of a standup has failed at the lookup for a user who has
\* no session, while another user has one
C20_Witness ==
  \E t \in Tasks, u \in Users :
    /\ pc[t] = "failed"
    /\ genResult[t] = "none" /\ api_key
    /\ ContainsTrigger(Strip(ev[t].text))
    /\ ~HasSession(ev[t].user)
    /\ HasSession(u)
    /\ outbox[t] = <<[channel |-> ev[t].channel, text |-> Apology]>>

====
